---- MODULE Spec2Model ----
(***************************************************************************)
(* Model of the fast-routing crate: the in-memory Network (network.rs),    *)
(* the point-to-point Dijkstra search of ContractionHierarchy              *)
(* (contraction.rs) and the cost-bounded search of IsochroneCalculator     *)
(* (isochrone.rs).                                                         *)
(*                                                                         *)
(* Costs are f64 seconds in the source.  The model uses lengths that are   *)
(* multiples of 1000 m, for which every cost is an exact integer, so sums  *)
(* and comparisons of costs are exact in both.  NodeIndex / EdgeIndex are  *)
(* positions in the petgraph vectors; here they are 1-based positions of   *)
(* graph.nodes / graph.edges.                                              *)
(***************************************************************************)
EXTENDS Integers, Sequences, FiniteSets, Bags, TLC

\* ------------------------------------------------------------------ bounds
MaxNodeId == 3      \* node ids offered to add_node and to the queries: 1..MaxNodeId
MaxVertices == 3    \* add_node calls in one run (vertices of the adjacency structure)
MaxArcs == 2        \* successful add_edge calls in one run (arcs of the adjacency structure)
MaxEdgeId == 2      \* edge ids offered to add_edge in SpecNet: 1..MaxEdgeId
MaxGrid == 3        \* widths and heights offered to create_grid: 1..MaxGrid
MaxRows == 2        \* rows of the table given to load_from_parquet: 0..MaxRows
MaxShared == 6      \* nodes of a graph that two threads query at once: 0..MaxShared

NodeIds == 1..MaxNodeId
EdgeIds == 1..MaxEdgeId

\* ------------------------------------------------------------ cost model
Modes == {"Walking", "Cycling", "Car", "Wheelchair"}

\* RoutingMode::default_speed, km/h
default_speed(mode) ==
    CASE mode = "Walking" -> 5
      [] mode = "Cycling" -> 15
      [] mode = "Car" -> 50
      [] mode = "Wheelchair" -> 4

\* Option<T>: None is the empty set, Some(x) the singleton {x}
None == {}
Some(x) == {x}
unwrap(opt) == CHOOSE x \in opt : TRUE

\* Option::unwrap_or
unwrap_or(opt, default) == IF opt = None THEN default ELSE unwrap(opt)

\* (length / 1000.0) / speed * 3600.0, exact for the lengths of the model
time_cost(length, speed) == (length * 3600) \div (1000 * speed)

\* Edge::calculate_cost: the edge with costs[mode] inserted
calculate_cost(edge, mode, speed_kmh) ==
    LET speed == unwrap_or(speed_kmh, default_speed(mode))
        cost == time_cost(edge.length, speed)
    IN [edge EXCEPT !.costs =
           [m \in (DOMAIN edge.costs) \cup {mode} |->
               IF m = mode THEN cost ELSE edge.costs[m]]]

\* Edge::get_cost
get_cost(edge, mode) == IF mode \in DOMAIN edge.costs THEN Some(edge.costs[mode]) ELSE None

\* Option::map_or: `default` for None, else the value in `mapped`, which is the
\* option with the closure applied inside it
map_or(mapped, default) == IF mapped = None THEN default ELSE unwrap(mapped)

\* Edge::is_accessible, the Car arm
car_accessible(edge) ==
    LET allowed(highway) == ~(highway \in {"footway", "cycleway", "path", "steps"})
    IN map_or({allowed(highway) : highway \in edge.highway_type}, TRUE)

\* Edge::is_accessible, the Cycling arm
cycling_accessible(edge) ==
    LET allowed(highway) == ~(highway \in {"motorway", "trunk", "steps"})
    IN map_or({allowed(highway) : highway \in edge.highway_type}, TRUE)

\* the Wheelchair arm with an absent surface tag counted as not accessible
wheelchair_accessible_AbsentSurfaceBlocked(edge) ==
    LET smooth(surface) == surface \in {"paved", "asphalt", "concrete"}
        allowed(highway) == ~(highway \in {"steps", "path"})
    IN /\ map_or({smooth(surface) : surface \in edge.surface}, FALSE)
       /\ map_or({allowed(highway) : highway \in edge.highway_type}, TRUE)

\* Edge::is_accessible, the Wheelchair arm
wheelchair_accessible(edge) ==
    LET smooth(surface) == surface \in {"paved", "asphalt", "concrete"}
        allowed(highway) == ~(highway \in {"steps", "path"})
    IN /\ map_or({smooth(surface) : surface \in edge.surface}, TRUE)
       /\ map_or({allowed(highway) : highway \in edge.highway_type}, TRUE)

\* Edge::is_accessible
is_accessible(edge, mode) ==
    CASE mode = "Car" -> car_accessible(edge)
      [] mode = "Walking" -> TRUE
      [] mode = "Cycling" -> cycling_accessible(edge)
      [] mode = "Wheelchair" -> wheelchair_accessible(edge)

\* Edge::new: no cost cached, no max_speed, not oneway, no surface, no highway
\* type (the geometry plays no part in the operations modelled here)
NewEdge(id, source, target, length) ==
    [id |-> id, source |-> source, target |-> target, length |-> length,
     costs |-> << >>, max_speed |-> None, oneway |-> FALSE,
     surface |-> None, highway_type |-> None]

\* Node::new (the location plays no part in the operations modelled here)
NewNode(id) == [id |-> id]

\* ---------------------------------------------------------------- state
VARIABLES
    graph,            \* Network.graph: [nodes: Seq(Node), edges: Seq(arc)]
    node_index_map,   \* Network.node_index_map: NodeId -> NodeIndex
    edge_index_map,   \* Network.edge_index_map: EdgeId -> EdgeIndex
    nodes,            \* Network.nodes: NodeId -> Node
    edges,            \* Network.edges: EdgeId -> Edge
    pc,               \* the caller: "build" while it owns the mutable Network,
                      \* "ready" once a ContractionHierarchy owns it, "done"
                      \* when its query has returned
    ret               \* the last call and what it returned

vars == <<graph, node_index_map, edge_index_map, nodes, edges, pc, ret>>
network == <<graph, node_index_map, edge_index_map, nodes, edges>>

\* HashMap::insert
MapInsert(map, k, v) == [x \in (DOMAIN map) \cup {k} |-> IF x = k THEN v ELSE map[x]]

EmptyMap == << >>

\* Network::new
Init ==
    /\ graph = [nodes |-> << >>, edges |-> << >>]
    /\ node_index_map = EmptyMap
    /\ edge_index_map = EmptyMap
    /\ nodes = EmptyMap
    /\ edges = EmptyMap
    /\ pc = "build"
    /\ ret = [op |-> "new"]

\* Network::get_node_index
get_node_index(node_id) ==
    IF node_id \in DOMAIN node_index_map THEN Some(node_index_map[node_id]) ELSE None

\* Network::node_count, Network::edge_count
node_count == Cardinality(DOMAIN nodes)
edge_count == Cardinality(DOMAIN edges)

\* Result<(), RoutingError> of a call, from the error it stopped at (None: Ok)
Outcome(err) == IF err = None THEN [res |-> "Ok"] ELSE [res |-> "Err", err |-> unwrap(err)]

\* add_node that keeps the vertex of an id it already holds
add_node_KeepsFirst(node) ==
    IF node.id \in DOMAIN nodes
    THEN /\ nodes' = MapInsert(nodes, node.id, node)
         /\ UNCHANGED <<graph, node_index_map, edge_index_map, edges>>
    ELSE /\ graph' = [graph EXCEPT !.nodes = Append(@, node)]
         /\ node_index_map' = MapInsert(node_index_map, node.id, Len(graph.nodes) + 1)
         /\ nodes' = MapInsert(nodes, node.id, node)
         /\ UNCHANGED <<edge_index_map, edges>>

\* Network::add_node (always Ok)
add_node(node) ==
    LET node_index == Len(graph.nodes) + 1
    IN /\ graph' = [graph EXCEPT !.nodes = Append(@, node)]
       /\ node_index_map' = MapInsert(node_index_map, node.id, node_index)
       /\ nodes' = MapInsert(nodes, node.id, node)
       /\ UNCHANGED <<edge_index_map, edges>>

\* add_edge that computes the cost for `mode` whether or not one is cached
with_cost_Recomputed(edge0, mode) == calculate_cost(edge0, mode, None)

\* the edge add_edge goes on with: its cost for `mode` computed if not cached
with_cost(edge0, mode) ==
    IF mode \notin DOMAIN edge0.costs THEN calculate_cost(edge0, mode, None) ELSE edge0

\* Network::add_edge, the three `?` in order: the error the call returns, or None
add_edge_err(edge0, mode) ==
    LET edge == with_cost(edge0, mode)
    IN IF get_cost(edge, mode) = None THEN Some("No cost calculated for mode")
       ELSE IF edge.source \notin DOMAIN node_index_map THEN Some("Source node not found")
       ELSE IF edge.target \notin DOMAIN node_index_map THEN Some("Target node not found")
       ELSE None

\* Network::add_edge, the copy-paste slip of looking the source id up twice:
\* the target is never checked
add_edge_SourceTwice(edge0, mode) ==
    LET edge == with_cost(edge0, mode)
    IN IF edge.source \notin DOMAIN node_index_map THEN UNCHANGED network
       ELSE /\ graph' = [graph EXCEPT !.edges =
                   Append(@, [source |-> node_index_map[edge.source],
                              target |-> node_index_map[edge.source],
                              weight |-> [edge_id |-> edge.id,
                                          cost |-> unwrap(get_cost(edge, mode))]])]
            /\ edge_index_map' = MapInsert(edge_index_map, edge.id, Len(graph.edges) + 1)
            /\ edges' = MapInsert(edges, edge.id, edge)
            /\ UNCHANGED <<node_index_map, nodes>>

\* Network::add_edge with the edge recorded before its endpoints are looked up
add_edge_InsertFirst(edge0, mode) ==
    LET edge == with_cost(edge0, mode)
    IN IF add_edge_err(edge0, mode) # None
       THEN /\ edges' = MapInsert(edges, edge.id, edge)
            /\ UNCHANGED <<graph, node_index_map, edge_index_map, nodes>>
       ELSE /\ graph' = [graph EXCEPT !.edges =
                   Append(@, [source |-> node_index_map[edge.source],
                              target |-> node_index_map[edge.target],
                              weight |-> [edge_id |-> edge.id,
                                          cost |-> unwrap(get_cost(edge, mode))]])]
            /\ edge_index_map' = MapInsert(edge_index_map, edge.id, Len(graph.edges) + 1)
            /\ edges' = MapInsert(edges, edge.id, edge)
            /\ UNCHANGED <<node_index_map, nodes>>

\* Network::add_edge: the network after the call
add_edge(edge0, mode) ==
    LET edge == with_cost(edge0, mode)
        cost == get_cost(edge, mode)
    IN IF add_edge_err(edge0, mode) # None
       THEN UNCHANGED network
       ELSE LET source_idx == node_index_map[edge.source]
                target_idx == node_index_map[edge.target]
                edge_with_cost == [edge_id |-> edge.id, cost |-> unwrap(cost)]
                edge_index == Len(graph.edges) + 1
            IN /\ graph' = [graph EXCEPT !.edges =
                      Append(@, [source |-> source_idx, target |-> target_idx,
                                 weight |-> edge_with_cost])]
               /\ edge_index_map' = MapInsert(edge_index_map, edge.id, edge_index)
               /\ edges' = MapInsert(edges, edge.id, edge)
               /\ UNCHANGED <<node_index_map, nodes>>

\* Network::validate: the error the call returns, or None
validate_err ==
    LET BadSource == {e \in DOMAIN edges : edges[e].source \notin DOMAIN nodes}
        BadTarget == {e \in DOMAIN edges : edges[e].target \notin DOMAIN nodes}
    IN IF BadSource \cup BadTarget # {}
       THEN Some("Edge references non-existent endpoint")
       ELSE IF Len(graph.nodes) # Cardinality(DOMAIN nodes)
       THEN Some("Graph node count doesn't match node map")
       ELSE IF Len(graph.edges) # Cardinality(DOMAIN edges)
       THEN Some("Graph edge count doesn't match edge map")
       ELSE None

\* ------------------------------------------------------- adjacency iteration
Reverse(seq) == [i \in 1..Len(seq) |-> seq[Len(seq) + 1 - i]]

RECURSIVE MapArcs(_, _)
\* the (neighbour, weight) pairs of a sequence of arcs seen from vertex a
MapArcs(arcs, a) ==
    IF arcs = << >> THEN << >>
    ELSE LET e == Head(arcs)
         IN <<[target |-> IF e.source = a THEN e.target ELSE e.source,
               weight |-> e.weight]>> \o MapArcs(Tail(arcs), a)

\* an adjacency iteration that walks an arc against its direction only when its
\* edge is not oneway
Edges_OnewayEnforced(a) ==
    LET rev == Reverse(graph.edges)
        IsOut(e) == e.source = a
        IsIn(e) == e.target = a /\ e.source # a /\ ~edges[e.weight.edge_id].oneway
    IN MapArcs(SelectSeq(rev, IsOut) \o SelectSeq(rev, IsIn), a)

\* graph.edges(a) of an undirected petgraph: the arcs whose source is a, newest
\* first, then the arcs whose target is a (self-loops not repeated), newest first;
\* target() of each is the other endpoint
Edges(a) ==
    LET rev == Reverse(graph.edges)
        IsOut(e) == e.source = a
        IsIn(e) == e.target = a /\ e.source # a
    IN MapArcs(SelectSeq(rev, IsOut) \o SelectSeq(rev, IsIn), a)

\* a pop that may yield any entry of the frontier, cheapest or not
PopCandidates_AnyEntry(heap) == BagToSet(heap)

\* a pop that yields an entry only when it is the single cheapest one
PopCandidates_SingleLeast(heap) ==
    {e \in BagToSet(heap) : \A o \in BagToSet(heap) : e = o \/ e.cost < o.cost}

\* BinaryHeap::pop under the reversed Ord of DijkstraState / IsochroneState: an
\* entry of least cost; the order among entries of equal cost is the heap's own
PopCandidates(heap) ==
    {e \in BagToSet(heap) : \A o \in BagToSet(heap) : e.cost <= o.cost}

HeapPush(heap, e) == heap (+) SetToBag({e})
HeapRemove(heap, e) == heap (-) SetToBag({e})

\* f64::INFINITY of unwrap_or(&f64::INFINITY): above every cost of the model
INFINITY == 1000000

\* ------------------------------------------- contraction.rs: dijkstra_search
\* distances.get(&k).unwrap_or(&f64::INFINITY)
DistOrInf(distances, k) == IF k \in DOMAIN distances THEN distances[k] ELSE INFINITY

\* a relaxation that records a neighbour only the first time it is seen
IsShorter_FirstSeenOnly(new_cost, known) == known = INFINITY

\* a relaxation that also takes a cost equal to the recorded one
IsShorter_OrEqual(new_cost, known) == new_cost <= known

\* the relaxation test of dijkstra_search
IsShorter(new_cost, known) == new_cost < known

\* the body of `for edge in graph.edges(node)`: one neighbour relaxed
relax_edge(s, node, cost, edge) ==
    LET neighbor == edge.target
        edge_cost == edge.weight.cost
        new_cost == cost + edge_cost
    IN IF IsShorter(new_cost, DistOrInf(s.distances, neighbor))
       THEN [s EXCEPT !.distances = MapInsert(@, neighbor, new_cost),
                      !.predecessors = MapInsert(@, neighbor, node),
                      !.heap = HeapPush(@, [node |-> neighbor, cost |-> new_cost])]
       ELSE s

RECURSIVE relax_all(_, _, _, _)
\* the for loop over graph.edges(node), in iteration order
relax_all(s, node, cost, es) ==
    IF es = << >> THEN s
    ELSE relax_all(relax_edge(s, node, cost, Head(es)), node, cost, Tail(es))

RECURSIVE pred_walk(_, _)
\* `while let Some(&pred) = predecessors.get(&current)`: the ids pushed, target first
pred_walk(predecessors, current) ==
    IF current \in DOMAIN predecessors
    THEN <<graph.nodes[current].id>> \o pred_walk(predecessors, predecessors[current])
    ELSE << >>

\* path reconstruction without `path.reverse()`
reconstruct_path_NoReverse(predecessors, from_idx, to_idx) ==
    pred_walk(predecessors, to_idx) \o <<graph.nodes[from_idx].id>>

\* path reconstruction without `path.push(from)`: only the nodes that have a
\* predecessor
reconstruct_path_WalkOnly(predecessors, from_idx, to_idx) ==
    Reverse(pred_walk(predecessors, to_idx))

\* path reconstruction: the walk, then the id of from_idx, then reverse
reconstruct_path(predecessors, from_idx, to_idx) ==
    Reverse(pred_walk(predecessors, to_idx) \o <<graph.nodes[from_idx].id>>)

\* the state of one dijkstra_search call before the loop
dijkstra_start(from_idx) ==
    [distances |-> MapInsert(EmptyMap, from_idx, 0),
     predecessors |-> EmptyMap,
     heap |-> HeapPush(EmptyBag, [node |-> from_idx, cost |-> 0]),
     expanded |-> << >>,
     result |-> None]

\* one iteration of `while let Some(state) = heap.pop()` with `e` the entry popped;
\* `expanded` records the vertices whose edges were relaxed, in order
dijkstra_step(s, e, from_idx, to_idx) ==
    LET s1 == [s EXCEPT !.heap = HeapRemove(@, e)]
    IN IF e.node = to_idx
       THEN [s1 EXCEPT !.result =
                Some([res |-> "Some", cost |-> e.cost,
                      path |-> reconstruct_path(s.predecessors, from_idx, to_idx)])]
       ELSE IF e.cost > DistOrInf(s.distances, e.node)
       THEN s1
       ELSE [relax_all(s1, e.node, e.cost, Edges(e.node))
                EXCEPT !.expanded = Append(@, e.node)]

\* a search that reports an exhausted frontier as a failure
no_path_AsError == [res |-> "Err", err |-> "No path found"]

\* `Ok(None)` after the loop: the frontier ran empty before the target was popped
no_path == [res |-> "None"]

RECURSIVE dijkstra_run(_, _, _)
\* the results the loop can end with, over every order of popping equal costs;
\* Ok(None) when the heap runs empty
dijkstra_run(s, from_idx, to_idx) ==
    IF s.result # None THEN s.result
    ELSE IF s.heap = EmptyBag THEN {no_path}
    ELSE UNION {dijkstra_run(dijkstra_step(s, e, from_idx, to_idx), from_idx, to_idx) :
                    e \in PopCandidates(s.heap)}

dijkstra_search(from_idx, to_idx) ==
    dijkstra_run(dijkstra_start(from_idx), from_idx, to_idx)

\* shortest_path that looks up only the source and searches for a target index
\* no vertex has when the target id is unknown
shortest_path_TargetUnchecked(from_node_id, to_node_id) ==
    LET from_idx == get_node_index(from_node_id)
        to_idx == get_node_index(to_node_id)
    IN IF from_idx = None THEN {[res |-> "Err", err |-> "from not found"]}
       ELSE dijkstra_search(unwrap(from_idx), unwrap_or(to_idx, 0))

\* ContractionHierarchy::shortest_path: the set of values the call can return
shortest_path(from_node_id, to_node_id) ==
    LET from_idx == get_node_index(from_node_id)
        to_idx == get_node_index(to_node_id)
    IN IF from_idx = None THEN {[res |-> "Err", err |-> "from not found"]}
       ELSE IF to_idx = None THEN {[res |-> "Err", err |-> "to not found"]}
       ELSE dijkstra_search(unwrap(from_idx), unwrap(to_idx))

\* ------------------------------------------ isochrone.rs: dijkstra_isochrone
\* no pruning at relaxation: the limit is left to the test after the pop
ExceedsLimit_Never(new_cost, max_cost) == FALSE

\* a limit that shuts out a cost equal to it
ExceedsLimit_AtLimit(new_cost, max_cost) == new_cost >= max_cost

\* `if new_cost > max_cost { continue; }`
ExceedsLimit(new_cost, max_cost) == new_cost > max_cost

\* is_better that never replaces a recorded cost
is_better_FirstSeenOnly(distances, neighbor_id, new_cost) ==
    neighbor_id \notin DOMAIN distances

\* is_better: distances.get(&neighbor_id) is None, or new_cost < existing_cost
is_better(distances, neighbor_id, new_cost) ==
    IF neighbor_id \in DOMAIN distances THEN new_cost < distances[neighbor_id] ELSE TRUE

\* the body of `for edge in graph.edges(current_idx)`: one neighbour relaxed
iso_relax_edge(s, current_cost, max_cost, edge) ==
    LET neighbor_idx == edge.target
        edge_cost == edge.weight.cost
        new_cost == current_cost + edge_cost
        neighbor_id == graph.nodes[neighbor_idx].id
    IN IF ExceedsLimit(new_cost, max_cost) THEN s
       ELSE IF is_better(s.distances, neighbor_id, new_cost)
       THEN [s EXCEPT !.distances = MapInsert(@, neighbor_id, new_cost),
                      !.heap = HeapPush(@, [node |-> neighbor_id, cost |-> new_cost])]
       ELSE s

RECURSIVE iso_relax_all(_, _, _, _)
\* the for loop over graph.edges(current_idx), in iteration order
iso_relax_all(s, current_cost, max_cost, es) ==
    IF es = << >> THEN s
    ELSE iso_relax_all(iso_relax_edge(s, current_cost, max_cost, Head(es)),
                       current_cost, max_cost, Tail(es))

\* a start that pushes the start entry but does not record its distance
isochrone_start_Unseeded(start_node_id) ==
    [distances |-> EmptyMap,
     heap |-> HeapPush(EmptyBag, [node |-> start_node_id, cost |-> 0]),
     expanded |-> << >>]

\* the state of one dijkstra_isochrone call before the loop
isochrone_start(start_node_id) ==
    [distances |-> MapInsert(EmptyMap, start_node_id, 0),
     heap |-> HeapPush(EmptyBag, [node |-> start_node_id, cost |-> 0]),
     expanded |-> << >>]

\* one iteration of `while let Some(state) = heap.pop()` with `e` the entry popped;
\* `expanded` records the node ids whose edges were relaxed, in order
isochrone_step(s, e, max_cost) ==
    LET s1 == [s EXCEPT !.heap = HeapRemove(@, e)]
        current_idx == get_node_index(e.node)
    IN IF e.node \in DOMAIN s.distances /\ e.cost > s.distances[e.node]
       THEN s1
       ELSE IF e.cost > max_cost
       THEN s1
       ELSE IF current_idx = None
       THEN s1
       ELSE [iso_relax_all(s1, e.cost, max_cost, Edges(unwrap(current_idx)))
                EXCEPT !.expanded = Append(@, e.node)]

RECURSIVE isochrone_run(_, _)
\* the distance maps the loop can end with, over every order of popping equal
\* costs; the loop ends when the heap is empty
isochrone_run(s, max_cost) ==
    IF s.heap = EmptyBag THEN {s.distances}
    ELSE UNION {isochrone_run(isochrone_step(s, e, max_cost), max_cost) :
                    e \in PopCandidates(s.heap)}

\* IsochroneCalculator::dijkstra_isochrone: None when the start is unknown
dijkstra_isochrone(start_node_id, max_cost) ==
    IF get_node_index(start_node_id) = None THEN None
    ELSE isochrone_run(isochrone_start(start_node_id), max_cost)

\* calculate that reports the size of the network as reachable_nodes
calculate_CountsNetwork(start_node_id, max_cost) ==
    LET found == dijkstra_isochrone(start_node_id, max_cost)
    IN IF found = None THEN {[res |-> "Err", err |-> "Start node not found"]}
       ELSE {[res |-> "Ok",
              result |-> [travel_costs |-> travel_costs,
                          max_cost |-> max_cost,
                          reachable_nodes |-> node_count,
                          start_node |-> start_node_id]] : travel_costs \in found}

\* IsochroneCalculator::calculate: the set of values the call can return
calculate(start_node_id, max_cost) ==
    LET found == dijkstra_isochrone(start_node_id, max_cost)
    IN IF found = None THEN {[res |-> "Err", err |-> "Start node not found"]}
       ELSE {[res |-> "Ok",
              result |-> [travel_costs |-> travel_costs,
                          max_cost |-> max_cost,
                          reachable_nodes |-> Cardinality(DOMAIN travel_costs),
                          start_node |-> start_node_id]] : travel_costs \in found}

RECURSIVE calculate_multiple_loop(_, _, _)
\* `for &max_cost in cost_thresholds`: each calculate(...)? either ends the call
\* with its error or has its result pushed onto `results`
calculate_multiple_loop(start_node_id, cost_thresholds, results) ==
    IF cost_thresholds = << >> THEN {[res |-> "Ok", results |-> results]}
    ELSE UNION {IF r.res = "Err" THEN {r}
                ELSE calculate_multiple_loop(start_node_id, Tail(cost_thresholds),
                                             Append(results, r.result)) :
                    r \in calculate(start_node_id, Head(cost_thresholds))}

\* calculate_multiple that walks the thresholds from the last to the first
calculate_multiple_Backwards(start_node_id, cost_thresholds) ==
    calculate_multiple_loop(start_node_id, Reverse(cost_thresholds), << >>)

\* IsochroneCalculator::calculate_multiple: the set of values the call can return
calculate_multiple(start_node_id, cost_thresholds) ==
    calculate_multiple_loop(start_node_id, cost_thresholds, << >>)

\* ------------------------------------------------------------- the inputs
\* edge lengths in metres offered to add_edge: 0 s and 72 s by car
Lengths == {0, 1000}

\* cost thresholds offered to calculate: below zero, zero, one arc, two arcs
Thresholds == {-1, 0, 72, 144}

\* ------------------------------------------------------------- the actions
\* Node ids are only ever compared for equality: add_node is offered every id
\* already in the network (a repeated id) and the least unused one.
OfferedNodeIds == {id \in NodeIds : id <= node_count + 1}

AddNode ==
    /\ pc = "build"
    /\ Len(graph.nodes) < MaxVertices
    /\ \E id \in OfferedNodeIds : add_node(NewNode(id))
    /\ ret' = [op |-> "add_node", out |-> Outcome(None)]
    /\ UNCHANGED pc

\* add_edge as the grid generator calls it: a fresh edge id per call, mode Car,
\* no cached cost, from a node to one of no smaller id (to itself: a self-loop).
\* The ids may be unknown.  Neither search reads an edge id, and every arc is
\* walked from both ends.
AddEdge ==
    /\ pc = "build"
    /\ Len(graph.edges) < MaxArcs
    /\ \E source \in NodeIds, length \in Lengths :
       \E target \in {t \in NodeIds : source <= t} :
         LET edge == NewEdge(Len(graph.edges) + 1, source, target, length)
         IN /\ add_edge(edge, "Car")
            /\ ret' = [op |-> "add_edge", out |-> Outcome(add_edge_err(edge, "Car"))]
    /\ UNCHANGED pc

\* ContractionHierarchy::new: the network moves into the hierarchy; the queries
\* are methods of the hierarchy and read it through &self
NewHierarchy ==
    /\ pc = "build"
    /\ pc' = "ready"
    /\ ret' = [op |-> "ContractionHierarchy::new"]
    /\ UNCHANGED network

\* A query changes nothing but what it returns, so a behaviour follows one query:
\* any later query would start from this same hierarchy.
ShortestPath ==
    /\ pc = "ready"
    /\ \E from \in NodeIds, to \in NodeIds :
         \E r \in shortest_path(from, to) :
            ret' = [op |-> "shortest_path", from |-> from, to |-> to, out |-> r]
    /\ pc' = "done"
    /\ UNCHANGED network

Calculate ==
    /\ pc = "ready"
    /\ \E start \in NodeIds, max_cost \in Thresholds :
         \E r \in calculate(start, max_cost) :
            ret' = [op |-> "calculate", start |-> start, max_cost |-> max_cost,
                    out |-> r]
    /\ pc' = "done"
    /\ UNCHANGED network

Next == AddNode \/ AddEdge \/ NewHierarchy \/ ShortestPath \/ Calculate

Spec == Init /\ [][Next]_vars

\* ------------------------------------------------- the batch of thresholds
\* threshold lists offered to calculate_multiple: empty, descending, ascending,
\* one threshold twice, a negative one in the middle
ThresholdLists == {<< >>, <<144, 0>>, <<0, 72, 144>>, <<72, 72>>, <<72, -1, 144>>}

CalculateMultiple ==
    /\ pc = "ready"
    /\ \E start \in NodeIds, thresholds \in ThresholdLists :
         \E r \in calculate_multiple(start, thresholds) :
            ret' = [op |-> "calculate_multiple", start |-> start,
                    thresholds |-> thresholds, out |-> r]
    /\ pc' = "done"
    /\ UNCHANGED network

NextMulti == AddNode \/ AddEdge \/ NewHierarchy \/ CalculateMultiple

SpecMulti == Init /\ [][NextMulti]_vars

\* --------------------------------------------- the network under construction
\* add_node with any id, repeated or not
AddAnyNode ==
    /\ Len(graph.nodes) < MaxVertices
    /\ \E id \in OfferedNodeIds :
         /\ add_node(NewNode(id))
         /\ ret' = [op |-> "add_node", id |-> id, out |-> Outcome(None)]
    /\ UNCHANGED pc

\* The edge ids a caller offers: one already stored, or the least unused one
\* (which unused id is taken makes no difference to any operation).
OfferedEdgeIds == {id \in EdgeIds : id <= edge_count + 1}

\* add_edge with an edge id, repeated or not, and any endpoint ids, known or not;
\* ret keeps the ids the call was made with
AddAnyEdge ==
    /\ Len(graph.edges) < MaxArcs
    /\ \E id \in OfferedEdgeIds, source \in NodeIds, target \in NodeIds :
         LET edge == NewEdge(id, source, target, 1000)
         IN /\ add_edge(edge, "Car")
            /\ ret' = [op |-> "add_edge", id |-> id, source |-> source,
                       target |-> target,
                       out |-> Outcome(add_edge_err(edge, "Car"))]
    /\ UNCHANGED pc

Validate ==
    /\ ret' = [op |-> "validate", out |-> Outcome(validate_err)]
    /\ UNCHANGED <<network, pc>>

NextNet == AddAnyNode \/ AddAnyEdge \/ Validate

SpecNet == Init /\ [][NextNet]_vars

\* ------------------------------------- the network built without repeated ids
\* add_node with an id not added before, in any order of ids
AddFreshNode ==
    /\ Len(graph.nodes) < MaxVertices
    /\ \E id \in NodeIds \ DOMAIN nodes : add_node(NewNode(id))
    /\ ret' = [op |-> "add_node", out |-> Outcome(None)]
    /\ UNCHANGED pc

\* add_edge with an edge id not stored before (the least one) and any endpoint
\* ids, known or not
AddFreshEdge ==
    /\ Len(graph.edges) < MaxArcs
    /\ \E source \in NodeIds, target \in NodeIds :
         LET edge == NewEdge(edge_count + 1, source, target, 1000)
         IN /\ add_edge(edge, "Car")
            /\ ret' = [op |-> "add_edge", source |-> source, target |-> target,
                       out |-> Outcome(add_edge_err(edge, "Car"))]
    /\ UNCHANGED pc

NextFresh == AddFreshNode \/ AddFreshEdge \/ Validate

SpecFresh == Init /\ [][NextFresh]_vars

\* ------------------------------------------- add_edge of an edge with fields
\* The costs an edge may carry when it is passed to add_edge: none, or a cost of
\* 7 s (no length of the model gives it) for Car, for Walking or for both.
OfferedCosts == {[m \in S |-> 7] : S \in SUBSET {"Car", "Walking"}}

\* max_speed as the database loader sets it: absent, or 25 km/h
OfferedMaxSpeeds == {None, Some(25)}

\* add_edge as the database loader calls it (database.rs): Edge::new, then costs
\* and max_speed set from the row, then add_edge with the caller's mode.  ret
\* keeps the edge and the mode the call was made with.
AddEdgeWith ==
    /\ pc = "build"
    /\ \E source \in NodeIds, target \in NodeIds, length \in Lengths, mode \in Modes :
       \E costs \in OfferedCosts, max_speed \in OfferedMaxSpeeds :
         LET edge == [NewEdge(Len(graph.edges) + 1, source, target, length)
                         EXCEPT !.costs = costs, !.max_speed = max_speed]
         IN /\ add_edge(edge, mode)
            /\ ret' = [op |-> "add_edge", edge |-> edge, mode |-> mode,
                       out |-> Outcome(add_edge_err(edge, mode))]
    /\ pc' = "done"

NextEdge == AddNode \/ AddEdgeWith

SpecEdge == Init /\ [][NextEdge]_vars

\* ------------------------------------- a network of edges that carry tags
\* <<length, oneway, highway_type, surface>> as the database loader sets them:
\* an edge of 1000 m open to all, and a oneway flight of steps on gravel of
\* 2000 m (closed to Car, Cycling and Wheelchair by is_accessible)
OfferedTagged ==
    {<<1000, FALSE, None, None>>, <<2000, TRUE, Some("steps"), Some("gravel")>>}

\* add_edge of a tagged edge, from any node to any node, with a fresh edge id
AddTaggedEdge ==
    /\ pc = "build"
    /\ Len(graph.edges) < MaxArcs
    /\ \E source \in NodeIds, target \in NodeIds, tagged \in OfferedTagged :
         LET edge == [NewEdge(Len(graph.edges) + 1, source, target, tagged[1])
                         EXCEPT !.oneway = tagged[2], !.highway_type = tagged[3],
                                !.surface = tagged[4]]
         IN /\ add_edge(edge, "Car")
            /\ ret' = [op |-> "add_edge", out |-> Outcome(add_edge_err(edge, "Car"))]
    /\ UNCHANGED pc

NextTagged == AddNode \/ AddTaggedEdge \/ NewHierarchy \/ ShortestPath

SpecTagged == Init /\ [][NextTagged]_vars

\* ------------------------------------------------- is_accessible of an edge
\* road-class tags: the seven the match arms name, one they do not, and one that
\* differs from a named one by case only
HighwayTypes == {"footway", "cycleway", "path", "steps", "motorway", "trunk",
                 "residential", "Steps"}

\* surface tags: the three the Wheelchair arm names, one it does not, and one
\* that differs from a named one by case only
Surfaces == {"paved", "asphalt", "concrete", "gravel", "Paved"}

\* Option<String> over a set of strings
OptionOf(S) == {None} \cup {Some(x) : x \in S}

\* is_accessible is a method of Edge and reads nothing of the network: an edge
\* is made, its tags are set as the database loader sets them, and it is asked.
IsAccessible ==
    /\ \E highway_type \in OptionOf(HighwayTypes), surface \in OptionOf(Surfaces) :
       \E oneway \in BOOLEAN, mode \in Modes :
         LET edge == [NewEdge(1, 1, 2, 1000)
                         EXCEPT !.highway_type = highway_type,
                                !.surface = surface, !.oneway = oneway]
         IN ret' = [op |-> "is_accessible", edge |-> edge, mode |-> mode,
                    out |-> is_accessible(edge, mode)]
    /\ UNCHANGED <<network, pc>>

NextAccess == IsAccessible

SpecAccess == Init /\ [][NextAccess]_vars

\* ------------------------------------------- dummy_network.rs: create_grid
\* spacings in metres offered to create_grid: 72 s and 144 s per edge by car
Spacings == {1000, 2000}

\* `if x < width - 1` taken as `if x < width`
has_right_OffByOne(x, width) == x < width

\* `if x < width - 1`: the cell has a right neighbour
has_right(x, width) == x < width - 1

\* `if y < height - 1`: the cell has a bottom neighbour
has_bottom(y, height) == y < height - 1

\* the record of a call with what it returned added
Returned(call, out) ==
    [f \in (DOMAIN call) \cup {"out"} |-> IF f = "out" THEN out ELSE call[f]]

\* create_grid is entered on a new network.  While it runs, ret is the call in
\* progress: its arguments and its loop variables.
CreateGrid ==
    /\ pc = "build" /\ ret.op = "new"
    /\ \E width \in 1..MaxGrid, height \in 1..MaxGrid, spacing \in Spacings :
         ret' = [op |-> "create_grid", width |-> width, height |-> height,
                 spacing |-> spacing, x |-> 0, y |-> 0, edge_id |-> 0]
    /\ pc' = "grid_nodes"
    /\ UNCHANGED network

\* one iteration of the node loops: add_node of node y * width + x; after the
\* last one, `let mut edge_id = 0` and the edge loops start
GridNode ==
    /\ pc = "grid_nodes"
    /\ add_node(NewNode(ret.y * ret.width + ret.x))
    /\ IF ret.x + 1 < ret.width
       THEN ret' = [ret EXCEPT !.x = @ + 1] /\ pc' = "grid_nodes"
       ELSE IF ret.y + 1 < ret.height
       THEN ret' = [ret EXCEPT !.x = 0, !.y = @ + 1] /\ pc' = "grid_nodes"
       ELSE ret' = [ret EXCEPT !.x = 0, !.y = 0, !.edge_id = 0] /\ pc' = "grid_right"

\* the first half of one iteration of the edge loops: the edge to the right
\* neighbour, if there is one; `?` returns the error of add_edge
GridRight ==
    /\ pc = "grid_right"
    /\ IF has_right(ret.x, ret.width)
       THEN LET current_node == ret.y * ret.width + ret.x
                right_node == ret.y * ret.width + (ret.x + 1)
                edge == NewEdge(ret.edge_id, current_node, right_node, ret.spacing)
                err == add_edge_err(edge, "Car")
            IN /\ add_edge(edge, "Car")
               /\ IF err = None
                  THEN ret' = [ret EXCEPT !.edge_id = @ + 1] /\ pc' = "grid_bottom"
                  ELSE ret' = Returned(ret, Outcome(err)) /\ pc' = "build"
       ELSE UNCHANGED <<network, ret>> /\ pc' = "grid_bottom"

\* the second half: the edge to the bottom neighbour, if there is one, then the
\* next cell; after the last cell create_grid returns Ok(network)
GridBottom ==
    /\ pc = "grid_bottom"
    /\ LET current_node == ret.y * ret.width + ret.x
           bottom_node == (ret.y + 1) * ret.width + ret.x
           edge == NewEdge(ret.edge_id, current_node, bottom_node, ret.spacing)
           err == IF has_bottom(ret.y, ret.height) THEN add_edge_err(edge, "Car") ELSE None
           edge_id == IF has_bottom(ret.y, ret.height) THEN ret.edge_id + 1 ELSE ret.edge_id
       IN /\ IF has_bottom(ret.y, ret.height)
             THEN add_edge(edge, "Car")
             ELSE UNCHANGED network
          /\ IF err # None
             THEN ret' = Returned(ret, Outcome(err)) /\ pc' = "build"
             ELSE IF ret.x + 1 < ret.width
             THEN ret' = [ret EXCEPT !.x = @ + 1, !.edge_id = edge_id]
                  /\ pc' = "grid_right"
             ELSE IF ret.y + 1 < ret.height
             THEN ret' = [ret EXCEPT !.x = 0, !.y = @ + 1, !.edge_id = edge_id]
                  /\ pc' = "grid_right"
             ELSE ret' = Returned([ret EXCEPT !.edge_id = edge_id], Outcome(None))
                  /\ pc' = "build"

\* thresholds offered to calculate on a grid: three, four and eight edges of
\* 72 s, and the 300 s of test_isochrone
GridThresholds == {216, 288, 300, 576}

\* calculate from the corner with id 0, as test_isochrone calls it
GridCalculate ==
    /\ pc = "ready"
    /\ \E max_cost \in GridThresholds :
         \E r \in calculate(0, max_cost) :
            ret' = [op |-> "calculate", start |-> 0, max_cost |-> max_cost, out |-> r]
    /\ pc' = "done"
    /\ UNCHANGED network

\* shortest_path from the corner with id 0 to the node of the largest grid id,
\* as test_basic_routing calls it
GridShortestPath ==
    /\ pc = "ready"
    /\ \E r \in shortest_path(0, node_count - 1) :
         ret' = [op |-> "shortest_path", from |-> 0, to |-> node_count - 1, out |-> r]
    /\ pc' = "done"
    /\ UNCHANGED network

\* a network comes from create_grid or from add_node and add_edge calls, or both
NextGrid ==
    \/ CreateGrid \/ GridNode \/ GridRight \/ GridBottom
    \/ GridCalculate \/ GridShortestPath
    \/ Next

SpecGrid == Init /\ [][NextGrid]_vars

\* -------------------------------------- data_loader.rs: load_from_parquet
\* A row of the table: edge_id, source, target, length_m and geometry, each
\* nullable.  A geometry string is one of three kinds: "unparsable"
\* (try_from_wkt_str is Err), "short" (it parses to fewer than two coordinates),
\* "line" (it parses to two or more).
FullRow(i, source, target) ==
    [edge_id |-> Some(i), source |-> Some(source), target |-> Some(target),
     length |-> Some(1000), geometry |-> Some("line")]

\* the row, and the row with one field null or with another kind of geometry
RowVariants(row) ==
    {row,
     [row EXCEPT !.edge_id = None], [row EXCEPT !.source = None],
     [row EXCEPT !.target = None], [row EXCEPT !.length = None],
     [row EXCEPT !.geometry = None],
     [row EXCEPT !.geometry = Some("unparsable")],
     [row EXCEPT !.geometry = Some("short")]}

\* the rows offered at position i of the table: two pairs of endpoints that
\* share a node
RowsAt(i) == RowVariants(FullRow(i, 1, 2)) \cup RowVariants(FullRow(i, 2, 3))

RECURSIVE TablesOfHeight(_)
TablesOfHeight(n) ==
    IF n = 0 THEN {<< >>}
    ELSE {Append(table, row) : table \in TablesOfHeight(n - 1), row \in RowsAt(n)}

Tables == UNION {TablesOfHeight(n) : n \in 0..MaxRows}

\* LineString::try_from_wkt_str(geom_str) is Ok
parses(geom_str) == geom_str # "unparsable"

\* coords.len() >= 2
has_two_coords(geom_str) == geom_str = "line"

\* the first pass over one row: the ids it inserts into node_coordinates
first_pass_row(row) ==
    IF /\ row.source # None /\ row.target # None /\ row.geometry # None
       /\ parses(unwrap(row.geometry))
       /\ has_two_coords(unwrap(row.geometry))
    THEN {unwrap(row.source), unwrap(row.target)}
    ELSE {}

\* the first pass: the keys of node_coordinates after `for i in 0..df.height()`
first_pass(table) == UNION {first_pass_row(table[i]) : i \in 1..Len(table)}

\* the second pass over one row: whether it reaches add_edge
second_pass_adds(row) ==
    /\ row.edge_id # None /\ row.source # None /\ row.target # None
    /\ row.length # None /\ row.geometry # None
    /\ parses(unwrap(row.geometry))

\* load_from_parquet on a table that was read: Network::new and the first pass,
\* which calls nothing of the network.  While the call runs, ret is the call in
\* progress: the table, node_coordinates and the row index of the second pass.
LoadFromParquet ==
    /\ pc = "build" /\ ret.op = "new"
    /\ \E table \in Tables :
         ret' = [op |-> "load_from_parquet", table |-> table,
                 node_coordinates |-> first_pass(table), i |-> 1, added_edges |-> 0]
    /\ pc' = "load_nodes"
    /\ UNCHANGED network

\* one iteration of `for (&node_id, &point) in &node_coordinates`, in the
\* HashMap's own order
LoaderAddNode ==
    /\ pc = "load_nodes"
    /\ \E node_id \in ret.node_coordinates \ DOMAIN nodes : add_node(NewNode(node_id))
    /\ UNCHANGED <<pc, ret>>

\* the node loop is over
LoaderNodesAdded ==
    /\ pc = "load_nodes"
    /\ ret.node_coordinates \subseteq DOMAIN nodes
    /\ pc' = "load_edges"
    /\ UNCHANGED <<network, ret>>

\* one iteration of the second pass; `?` returns the error of add_edge
LoaderRow ==
    /\ pc = "load_edges"
    /\ ret.i <= Len(ret.table)
    /\ LET row == ret.table[ret.i]
       IN IF second_pass_adds(row)
          THEN LET edge == NewEdge(unwrap(row.edge_id), unwrap(row.source),
                                   unwrap(row.target), unwrap(row.length))
                   err == add_edge_err(edge, "Walking")
               IN /\ add_edge(edge, "Walking")
                  /\ IF err = None
                     THEN /\ ret' = [ret EXCEPT !.i = @ + 1, !.added_edges = @ + 1]
                          /\ UNCHANGED pc
                     ELSE /\ ret' = Returned(ret, Outcome(err))
                          /\ pc' = "build"
          ELSE /\ ret' = [ret EXCEPT !.i = @ + 1]
               /\ UNCHANGED <<network, pc>>

\* Ok(network) after the last row
LoaderReturn ==
    /\ pc = "load_edges"
    /\ ret.i > Len(ret.table)
    /\ ret' = Returned(ret, Outcome(None))
    /\ pc' = "build"
    /\ UNCHANGED network

NextLoader ==
    LoadFromParquet \/ LoaderAddNode \/ LoaderNodesAdded \/ LoaderRow \/ LoaderReturn

SpecLoader == Init /\ [][NextLoader]_vars

\* ------------------------------------------ queries running at the same time
\* Two threads share one &ContractionHierarchy.  Each call owns its distances,
\* predecessors and heap (locals of dijkstra_search / dijkstra_isochrone); the
\* threads take turns at the granularity of one loop iteration.
Threads == {"t1", "t2"}

\* the queries a thread may run: shortest_path from node 1 to a
\* node near it, calculate from node 1 over one or two edges of 72 s
ThreadQueries ==
    {[op |-> "shortest_path", from |-> 1, to |-> to] : to \in NodeIds}
    \cup {[op |-> "calculate", start |-> 1, max_cost |-> max_cost] : max_cost \in {72, 144}}

\* IsochroneResult { travel_costs, max_cost, reachable_nodes, start_node }
IsochroneResult(travel_costs, max_cost, start_node_id) ==
    [travel_costs |-> travel_costs,
     max_cost |-> max_cost,
     reachable_nodes |-> Cardinality(DOMAIN travel_costs),
     start_node |-> start_node_id]

\* locals that are one set of variables shared by all calls
update_call_SharedLocals(calls, t, at, s, out) ==
    [u \in DOMAIN calls |-> [query |-> calls[u].query, at |-> at, s |-> s, out |-> out]]

\* a call writes its own locals: where it is, its search state, what it returned
update_call(calls, t, at, s, out) ==
    [calls EXCEPT ![t] = [query |-> @.query, at |-> at, s |-> s, out |-> out]]

\* both threads are handed their queries; while they run, ret holds the calls
\* in flight
Spawn ==
    /\ pc = "ready"
    /\ node_count <= MaxShared
    /\ \E query \in [Threads -> ThreadQueries] :
         ret' = [op |-> "threads",
                 calls |-> [t \in Threads |->
                               [query |-> query[t], at |-> "lookup",
                                s |-> None, out |-> None]]]
    /\ pc' = "running"
    /\ UNCHANGED network

\* the part of a call before its loop: the lookups of shortest_path, or the
\* lookup of dijkstra_isochrone, and the initialisation of the locals
ThreadEnter ==
    /\ pc = "running"
    /\ \E t \in Threads :
         LET call == ret.calls[t]
             query == call.query
         IN /\ call.at = "lookup"
            /\ IF query.op = "shortest_path"
               THEN LET from_idx == get_node_index(query.from)
                        to_idx == get_node_index(query.to)
                    IN IF from_idx = None
                       THEN ret' = [ret EXCEPT !.calls = update_call(@, t, "returned",
                                       None, Some([res |-> "Err", err |-> "from not found"]))]
                       ELSE IF to_idx = None
                       THEN ret' = [ret EXCEPT !.calls = update_call(@, t, "returned",
                                       None, Some([res |-> "Err", err |-> "to not found"]))]
                       ELSE ret' = [ret EXCEPT !.calls = update_call(@, t, "loop",
                                       dijkstra_start(unwrap(from_idx)), None)]
               ELSE IF get_node_index(query.start) = None
                    THEN ret' = [ret EXCEPT !.calls = update_call(@, t, "returned",
                                    None, Some([res |-> "Err", err |-> "Start node not found"]))]
                    ELSE ret' = [ret EXCEPT !.calls = update_call(@, t, "loop",
                                    isochrone_start(query.start), None)]
    /\ UNCHANGED <<network, pc>>

\* one iteration of the loop of dijkstra_search in one thread, or its Ok(None)
ThreadSearchStep ==
    /\ pc = "running"
    /\ \E t \in Threads :
         LET call == ret.calls[t]
             query == call.query
         IN /\ call.at = "loop"
            /\ query.op = "shortest_path"
            /\ IF call.s.heap = EmptyBag
               THEN ret' = [ret EXCEPT !.calls =
                               update_call(@, t, "returned", call.s, Some(no_path))]
               ELSE \E e \in PopCandidates(call.s.heap) :
                      LET s2 == dijkstra_step(call.s, e, node_index_map[query.from],
                                              node_index_map[query.to])
                      IN IF s2.result # None
                         THEN ret' = [ret EXCEPT !.calls =
                                  update_call(@, t, "returned", s2, s2.result)]
                         ELSE ret' = [ret EXCEPT !.calls =
                                  update_call(@, t, "loop", s2, None)]
    /\ UNCHANGED <<network, pc>>

\* one iteration of the loop of dijkstra_isochrone in one thread, or the return
\* of calculate
ThreadIsochroneStep ==
    /\ pc = "running"
    /\ \E t \in Threads :
         LET call == ret.calls[t]
             query == call.query
         IN /\ call.at = "loop"
            /\ query.op = "calculate"
            /\ IF call.s.heap = EmptyBag
               THEN ret' = [ret EXCEPT !.calls = update_call(@, t, "returned", call.s,
                               Some([res |-> "Ok",
                                     result |-> IsochroneResult(call.s.distances,
                                                    query.max_cost, query.start)]))]
               ELSE \E e \in PopCandidates(call.s.heap) :
                      ret' = [ret EXCEPT !.calls = update_call(@, t, "loop",
                                  isochrone_step(call.s, e, query.max_cost), None)]
    /\ UNCHANGED <<network, pc>>

\* the network is a grid of create_grid: several equal-cost ways between nodes
NextThreads ==
    \/ CreateGrid \/ GridNode \/ GridRight \/ GridBottom \/ NewHierarchy
    \/ Spawn \/ ThreadEnter \/ ThreadSearchStep \/ ThreadIsochroneStep

SpecThreads == Init /\ [][NextThreads]_vars

\* ------------------------- python_bindings.rs: calculate_batch_isochrones
\* convert_isochrone_result: start_node and max_cost are the arguments of the
\* batch loop, the rest is taken from the result
convert_isochrone_result(result, start_node, max_cost) ==
    [start_node |-> start_node,
     max_cost |-> max_cost,
     reachable_nodes |-> result.reachable_nodes,
     travel_costs |-> result.travel_costs]

\* a match whose Err arm pushes an empty result for the failed pair
batch_match_ErrPushed(results, r, start_node, max_cost) ==
    IF r.res = "Ok"
    THEN Append(results, convert_isochrone_result(r.result, start_node, max_cost))
    ELSE Append(results, [start_node |-> start_node, max_cost |-> max_cost,
                          reachable_nodes |-> 0, travel_costs |-> EmptyMap])

\* `match IsochroneCalculator::calculate(..)`: Ok pushes the converted result,
\* Err prints a warning and continues
batch_match(results, r, start_node, max_cost) ==
    IF r.res = "Ok"
    THEN Append(results, convert_isochrone_result(r.result, start_node, max_cost))
    ELSE results

RECURSIVE batch_thresholds(_, _, _)
\* `for &max_cost in &time_thresholds`: the values `results` can have after it
batch_thresholds(start_node, time_thresholds, results) ==
    IF time_thresholds = << >> THEN {results}
    ELSE UNION {batch_thresholds(start_node, Tail(time_thresholds),
                                 batch_match(results, r, start_node,
                                             Head(time_thresholds))) :
                    r \in calculate(start_node, Head(time_thresholds))}

RECURSIVE batch_starts(_, _, _)
\* `for &start_node in &start_nodes`: the values `results` can have after it
batch_starts(start_nodes, time_thresholds, results) ==
    IF start_nodes = << >> THEN {results}
    ELSE UNION {batch_starts(Tail(start_nodes), time_thresholds, after) :
                    after \in batch_thresholds(Head(start_nodes), time_thresholds,
                                               results)}

\* PyRoutingNetwork::calculate_batch_isochrones: the values the call can return
calculate_batch_isochrones(start_nodes, time_thresholds) ==
    {[res |-> "Ok", results |-> results] :
        results \in batch_starts(start_nodes, time_thresholds, << >>)}

\* start lists offered to the batch: empty, one node, a node after one that may
\* be unknown, a node twice around another
StartLists == {<< >>, <<1>>, <<3, 1>>, <<2, 3, 2>>}

\* threshold lists offered to the batch: empty, one, ascending, a negative last
BatchThresholdLists == {<< >>, <<72>>, <<0, 144>>, <<144, -1>>}

CalculateBatch ==
    /\ pc = "ready"
    /\ \E start_nodes \in StartLists, time_thresholds \in BatchThresholdLists :
         \E r \in calculate_batch_isochrones(start_nodes, time_thresholds) :
            ret' = [op |-> "calculate_batch_isochrones", start_nodes |-> start_nodes,
                    time_thresholds |-> time_thresholds, out |-> r]
    /\ pc' = "done"
    /\ UNCHANGED network

NextBatch == AddNode \/ AddEdge \/ NewHierarchy \/ CalculateBatch

SpecBatch == Init /\ [][NextBatch]_vars

\* ------------------------------------------- network.rs: find_nearest_node
\* An f64 is the set of the one number it is, or the empty set when it is NaN.
NaN == {}
Num(x) == {x}

\* `a < b` of two f64: false when either is NaN
lt(a, b) == a # NaN /\ b # NaN /\ unwrap(a) < unwrap(b)

\* `a <= b` of two f64: false when either is NaN
le(a, b) == a # NaN /\ b # NaN /\ unwrap(a) <= unwrap(b)

Abs(x) == IF x < 0 THEN -x ELSE x

\* Points of one meridian, named by their latitude in whole degrees (an f64).
\* Network::calculate_distance of two of them: 6371000.0 * c with c the
\* difference of the latitudes in radians, 111195 m for each degree; NaN when
\* a latitude is NaN (every operation on a NaN gives NaN)
calculate_distance(point1, point2) ==
    IF point1 = NaN \/ point2 = NaN THEN NaN
    ELSE Num(111195 * Abs(unwrap(point2) - unwrap(point1)))

\* the loop body of find_nearest_node that records the node and not its distance
nearest_visit_MinNotKept(acc, node_id, point) ==
    LET distance == calculate_distance(point, nodes[node_id].location)
    IN IF lt(distance, acc.min_distance)
       THEN [acc EXCEPT !.nearest_node = Some(node_id)]
       ELSE acc

\* the body of `for (node_id, node) in &self.nodes`
nearest_visit(acc, node_id, point) ==
    LET distance == calculate_distance(point, nodes[node_id].location)
    IN IF lt(distance, acc.min_distance)
       THEN [min_distance |-> distance, nearest_node |-> Some(node_id)]
       ELSE acc

RECURSIVE nearest_scan(_, _, _)
\* the loop over the node ids in the order `order`
nearest_scan(acc, order, point) ==
    IF order = << >> THEN acc
    ELSE nearest_scan(nearest_visit(acc, Head(order), point), Tail(order), point)

\* the orders in which a HashMap may hand out the keys of S
RECURSIVE Orders(_)
Orders(S) ==
    IF S = {} THEN {<< >>}
    ELSE UNION {{<<k>> \o rest : rest \in Orders(S \ {k})} : k \in S}

\* Network::find_nearest_node: the values the call can return, over the
\* iteration orders of the node map
find_nearest_node(point) ==
    {nearest_scan([min_distance |-> Num(INFINITY), nearest_node |-> None],
                  order, point).nearest_node : order \in Orders(DOMAIN nodes)}

\* latitudes of nodes and of query points: three numbers with 1 midway between
\* 0 and 2, and NaN
Latitudes == {Num(0), Num(1), Num(2), NaN}

\* add_node of a node with a location, the id repeated or not
AddLocatedNode ==
    /\ pc = "build"
    /\ Len(graph.nodes) < MaxVertices
    /\ \E id \in OfferedNodeIds, location \in Latitudes :
         add_node([id |-> id, location |-> location])
    /\ ret' = [op |-> "add_node", out |-> Outcome(None)]
    /\ UNCHANGED pc

\* find_nearest_node reads the network through &self
FindNearestNode ==
    /\ \E point \in Latitudes :
       \E r \in find_nearest_node(point) :
          ret' = [op |-> "find_nearest_node", point |-> point, out |-> r]
    /\ UNCHANGED <<network, pc>>

NextNearest == AddLocatedNode \/ FindNearestNode

SpecNearest == Init /\ [][NextNearest]_vars

\* --------------------------------------------- one query, one iteration a step
\* While a query runs (pc = "running"), ret holds its arguments, its locals `s`
\* and the entry its last iteration popped.

\* shortest_path up to the loop of dijkstra_search: the two lookups, then the
\* locals initialised
StartShortestPath ==
    /\ pc = "ready"
    /\ \E from \in NodeIds, to \in NodeIds :
         LET from_idx == get_node_index(from)
             to_idx == get_node_index(to)
             call == [op |-> "shortest_path", from |-> from, to |-> to]
         IN IF from_idx = None
            THEN /\ ret' = Returned(call, [res |-> "Err", err |-> "from not found"])
                 /\ pc' = "done"
            ELSE IF to_idx = None
            THEN /\ ret' = Returned(call, [res |-> "Err", err |-> "to not found"])
                 /\ pc' = "done"
            ELSE /\ ret' = [op |-> "shortest_path", from |-> from, to |-> to,
                            s |-> dijkstra_start(unwrap(from_idx)), popped |-> None]
                 /\ pc' = "running"
    /\ UNCHANGED network

\* calculate up to the loop of dijkstra_isochrone: the lookup, then the locals
\* initialised
StartCalculate ==
    /\ pc = "ready"
    /\ \E start \in NodeIds, max_cost \in Thresholds :
         LET call == [op |-> "calculate", start |-> start, max_cost |-> max_cost]
         IN IF get_node_index(start) = None
            THEN /\ ret' = Returned(call, [res |-> "Err", err |-> "Start node not found"])
                 /\ pc' = "done"
            ELSE /\ ret' = [op |-> "calculate", start |-> start, max_cost |-> max_cost,
                            s |-> isochrone_start(start), popped |-> None]
                 /\ pc' = "running"
    /\ UNCHANGED network

\* one iteration of the loop of dijkstra_search, or `Ok(None)` when heap.pop()
\* is None
SearchStep ==
    /\ pc = "running"
    /\ ret.op = "shortest_path"
    /\ IF ret.s.heap = EmptyBag
       THEN /\ ret' = [ret EXCEPT !.s.result = Some(no_path)]
            /\ pc' = "done"
       ELSE \E e \in PopCandidates(ret.s.heap) :
              LET s2 == dijkstra_step(ret.s, e, node_index_map[ret.from],
                                      node_index_map[ret.to])
              IN /\ ret' = [ret EXCEPT !.s = s2, !.popped = Some(e)]
                 /\ pc' = IF s2.result # None THEN "done" ELSE "running"
    /\ UNCHANGED network

\* one iteration of the loop of dijkstra_isochrone, or the return of the
\* distances when heap.pop() is None
IsochroneStep ==
    /\ pc = "running"
    /\ ret.op = "calculate"
    /\ IF ret.s.heap = EmptyBag
       THEN /\ ret' = ret
            /\ pc' = "done"
       ELSE \E e \in PopCandidates(ret.s.heap) :
              /\ ret' = [ret EXCEPT !.s = isochrone_step(ret.s, e, ret.max_cost),
                                    !.popped = Some(e)]
              /\ pc' = "running"
    /\ UNCHANGED network

NextSteps ==
    \/ AddNode \/ AddEdge \/ NewHierarchy
    \/ StartShortestPath \/ StartCalculate \/ SearchStep \/ IsochroneStep

SpecSteps == Init /\ [][NextSteps]_vars

\* A running call is a loop of the calling thread: it takes its next iteration.
LiveSteps == SpecSteps /\ WF_vars(SearchStep) /\ WF_vars(IsochroneStep)

\* ====================================================== reference notions
\* The arcs of the adjacency structure as the caller names them: by node id.
\* Every arc can be walked in both directions.
IdArcs ==
    {[a |-> graph.nodes[graph.edges[i].source].id,
      b |-> graph.nodes[graph.edges[i].target].id,
      cost |-> graph.edges[i].weight.cost] : i \in 1..Len(graph.edges)}

\* the costs of the arcs joining ids x and y
ArcCosts(x, y) ==
    {arc.cost : arc \in {r \in IdArcs : (r.a = x /\ r.b = y) \/ (r.a = y /\ r.b = x)}}

Min(S) == CHOOSE x \in S : \A y \in S : x <= y

\* one more arc: the <<node id, summed cost>> pairs one arc past the pair p
OneArcOn(p, arcs) ==
    {<<arc.b, p[2] + arc.cost>> : arc \in {r \in arcs : r.a = p[1]}}
        \cup {<<arc.a, p[2] + arc.cost>> : arc \in {r \in arcs : r.b = p[1]}}

RECURSIVE WalksWithin(_, _, _)
\* the <<end node, summed cost>> pairs of the walks of at most k arcs that start
\* as one of the pairs of `reached`
WalksWithin(reached, arcs, k) ==
    IF k = 0 THEN reached
    ELSE WalksWithin(reached \cup UNION {OneArcOn(p, arcs) : p \in reached}, arcs, k - 1)

\* With costs >= 0 a least-cost walk repeats no node: fewer arcs than nodes.
Walks(a) == WalksWithin({<<a, 0>>}, IdArcs, Cardinality(DOMAIN nodes))

\* the least cost among the pairs of `walks` that end at b, INFINITY when none does
LeastIn(walks, b) ==
    LET costs == {p[2] : p \in {q \in walks : q[1] = b}}
    IN IF costs = {} THEN INFINITY ELSE Min(costs)

\* the least summed arc cost over all walks from a to b
LeastCost(a, b) == LeastIn(Walks(a), b)

Joined(a, b) == LeastCost(a, b) < INFINITY

\* no node id was added twice
NoRepeatedNodeIds == Len(graph.nodes) = Cardinality(DOMAIN nodes)

\* the node ids touched by some arc
Touched == {arc.a : arc \in IdArcs} \cup {arc.b : arc \in IdArcs}

RECURSIVE PathCosts(_)
\* the sums of one arc cost per consecutive pair of ids of a path ({} when some
\* pair is joined by no arc)
PathCosts(path) ==
    IF Len(path) <= 1 THEN {0}
    ELSE {c + rest : c \in ArcCosts(path[1], path[2]), rest \in PathCosts(Tail(path))}

ShortestPathReturned == pc = "done" /\ ret.op = "shortest_path"
CalculateReturned == pc = "done" /\ ret.op = "calculate"
CalculateOk == CalculateReturned /\ ret.out.res = "Ok"

\* ================================================================= claims
\* C1 as stated: whenever shortest_path(from, to) is called for two existing
\* nodes joined by a walk, it returns Some((cost, path)) with cost <= the summed
\* arc cost of every walk from `from` to `to`.
C1_OptimalOnEveryGraph ==
    (/\ ShortestPathReturned
     /\ ret.from \in DOMAIN nodes /\ ret.to \in DOMAIN nodes
     /\ Joined(ret.from, ret.to))
    => (ret.out.res = "Some" /\ ret.out.cost <= LeastCost(ret.from, ret.to))

\* C1 amended: the same, on a graph to which no node id was added twice.
C1_Optimal ==
    (/\ ShortestPathReturned
     /\ NoRepeatedNodeIds
     /\ ret.from \in DOMAIN nodes /\ ret.to \in DOMAIN nodes
     /\ Joined(ret.from, ret.to))
    => (ret.out.res = "Some" /\ ret.out.cost <= LeastCost(ret.from, ret.to))

\* C1 witness: a path was returned although a dearer arc joins the two nodes
\* directly (parallel arcs, or a detour that beats the direct arc).
C1_Witness ==
    /\ ShortestPathReturned
    /\ NoRepeatedNodeIds
    /\ ret.from # ret.to
    /\ ret.out.res = "Some"
    /\ \E c \in ArcCosts(ret.from, ret.to) : c > ret.out.cost

\* C2: a returned path starts at `from`, ends at `to`, steps along arcs of the
\* graph, and the returned cost is the sum of one arc cost per step.
C2_ValidPath ==
    (ShortestPathReturned /\ ret.out.res = "Some")
    => LET path == ret.out.path
       IN /\ Len(path) >= 1
          /\ path[1] = ret.from
          /\ path[Len(path)] = ret.to
          /\ \A i \in 1..(Len(path) - 1) : ArcCosts(path[i], path[i + 1]) # {}
          /\ ret.out.cost \in PathCosts(path)

\* C2 witness: a returned path of three nodes with a cost above zero.
C2_Witness ==
    /\ ShortestPathReturned
    /\ ret.out.res = "Some"
    /\ Len(ret.out.path) = 3
    /\ ret.out.cost > 0

travel_costs == ret.out.result.travel_costs

\* C3 as stated: for every threshold, of either sign, every entry of the returned
\* mapping has cost <= max_cost and the start node is in it at cost 0.
C3_AllWithinThreshold ==
    CalculateOk
    => /\ \A n \in DOMAIN travel_costs : travel_costs[n] <= ret.max_cost
       /\ ret.start \in DOMAIN travel_costs
       /\ travel_costs[ret.start] = 0

\* C3 amended: for every threshold, of either sign, the start node is in the
\* returned mapping at cost 0 and every other entry has cost <= max_cost; the
\* start entry itself is within the threshold exactly when max_cost >= 0.
C3_OthersWithinThreshold ==
    CalculateOk
    => /\ \A n \in (DOMAIN travel_costs) \ {ret.start} : travel_costs[n] <= ret.max_cost
       /\ ret.start \in DOMAIN travel_costs
       /\ travel_costs[ret.start] = 0

\* C3 witness: a result that holds a node other than the start and leaves out a
\* node joined to the start, which lies beyond the threshold.
C3_Witness ==
    /\ CalculateOk
    /\ Cardinality(DOMAIN travel_costs) >= 2
    /\ \E n \in DOMAIN nodes :
          n \notin DOMAIN travel_costs /\ Joined(ret.start, n)

\* C4 as stated: for max_cost >= 0 the returned mapping holds a node n exactly
\* when the least cost d(start, n) over all walks is <= max_cost, and records d.
C4_ExactOnEveryGraph ==
    (CalculateOk /\ ret.max_cost >= 0)
    => LET walks == Walks(ret.start)
       IN \A n \in DOMAIN nodes :
             /\ (n \in DOMAIN travel_costs) <=> (LeastIn(walks, n) <= ret.max_cost)
             /\ n \in DOMAIN travel_costs => travel_costs[n] = LeastIn(walks, n)

\* C4 amended: the same, on a graph to which no node id was added twice.
C4_Exact ==
    (CalculateOk /\ ret.max_cost >= 0 /\ NoRepeatedNodeIds)
    => LET walks == Walks(ret.start)
       IN /\ DOMAIN travel_costs \subseteq DOMAIN nodes
          /\ \A n \in DOMAIN nodes :
                /\ (n \in DOMAIN travel_costs) <=> (LeastIn(walks, n) <= ret.max_cost)
                /\ n \in DOMAIN travel_costs => travel_costs[n] = LeastIn(walks, n)

\* C4 witness: no repeated id, a node recorded at a cost below that of an arc
\* joining it to the start, and a joined node left out.
C4_Witness ==
    /\ CalculateOk /\ ret.max_cost >= 0 /\ NoRepeatedNodeIds
    /\ \E n \in DOMAIN travel_costs :
          \E c \in ArcCosts(ret.start, n) : travel_costs[n] < c
    /\ \E n \in DOMAIN nodes :
          n \notin DOMAIN travel_costs /\ Joined(ret.start, n)

\* C5: for thresholds t1 < t2 and the same start, the nodes of calculate(start, t1)
\* are nodes of calculate(start, t2), at the same recorded cost.
C5_Monotone ==
    CalculateOk
    => \A t2 \in Thresholds :
          ret.max_cost < t2
          => \A r2 \in calculate(ret.start, t2) :
                /\ r2.res = "Ok"
                /\ DOMAIN travel_costs \subseteq DOMAIN r2.result.travel_costs
                /\ \A n \in DOMAIN travel_costs :
                      travel_costs[n] = r2.result.travel_costs[n]

\* C5 witness: a result of several nodes that a larger threshold strictly extends.
C5_Witness ==
    /\ CalculateOk
    /\ Cardinality(DOMAIN travel_costs) >= 2
    /\ \E t2 \in Thresholds :
          /\ ret.max_cost < t2
          /\ \E r2 \in calculate(ret.start, t2) :
                DOMAIN r2.result.travel_costs # DOMAIN travel_costs

\* C6: for two existing nodes joined by no walk, shortest_path returns Ok(None):
\* neither an error nor a path.
C6_NoPathIsNone ==
    (/\ ShortestPathReturned
     /\ ret.from \in DOMAIN nodes /\ ret.to \in DOMAIN nodes
     /\ ~Joined(ret.from, ret.to))
    => ret.out.res = "None"

\* C6 witness: None returned for two existing nodes that both have arcs.
C6_Witness ==
    /\ ShortestPathReturned
    /\ ret.out.res = "None"
    /\ ret.from \in Touched /\ ret.to \in Touched
    /\ ~Joined(ret.from, ret.to)

\* C7: for an existing start node with no incident arc and max_cost >= 0,
\* calculate returns Ok with travel_costs = {start: 0} and reachable_nodes = 1.
C7_IsolatedStart ==
    (/\ CalculateReturned
     /\ ret.start \in DOMAIN nodes
     /\ ret.start \notin Touched
     /\ ret.max_cost >= 0)
    => /\ ret.out.res = "Ok"
       /\ DOMAIN travel_costs = {ret.start}
       /\ travel_costs[ret.start] = 0
       /\ ret.out.result.reachable_nodes = 1

\* C7 witness: an isolated start in a graph that has arcs elsewhere.
C7_Witness ==
    /\ CalculateReturned
    /\ ret.start \in DOMAIN nodes
    /\ ret.start \notin Touched
    /\ ret.max_cost > 0
    /\ Touched # {}
    /\ ret.out.res = "Ok"

\* C8: shortest_path returns Err whenever `from` or `to` is not a node id of the
\* graph, and calculate returns Err whenever `start` is not: no result for any
\* other node is returned.
C8_UnknownIdIsErr ==
    /\ (ShortestPathReturned
         /\ (ret.from \notin DOMAIN nodes \/ ret.to \notin DOMAIN nodes))
        => ret.out.res = "Err"
    /\ (CalculateReturned /\ ret.start \notin DOMAIN nodes)
        => ret.out.res = "Err"

\* C8 witness: Err for a known source and an unknown target in a graph with arcs.
C8_Witness ==
    /\ ShortestPathReturned
    /\ ret.from \in Touched
    /\ ret.to \notin DOMAIN nodes
    /\ ret.out.res = "Err"

\* C9: an add_edge call whose source id or target id is not in the node lookup
\* returns Err and leaves the whole network as it was.
C9_AddEdgeFailsAtomically ==
    [][(/\ ret'.op = "add_edge"
        /\ (ret'.source \notin DOMAIN node_index_map
             \/ ret'.target \notin DOMAIN node_index_map))
       => (ret'.out.res = "Err" /\ UNCHANGED network)]_vars

\* C9 witness: add_edge has failed on an unknown target, with a known source, in
\* a network that already holds an arc.
C9_Witness ==
    /\ ret.op = "add_edge"
    /\ ret.out.res = "Err"
    /\ ret.source \in DOMAIN node_index_map
    /\ ret.target \notin DOMAIN node_index_map
    /\ Len(graph.edges) >= 1

\* C10: after any sequence of add_node and add_edge calls, failing or not, with
\* or without repeated ids, every stored edge has its source id and its target
\* id in the node set, and validate() never reports a missing endpoint.
C10_EndpointsExist ==
    /\ \A e \in DOMAIN edges :
          edges[e].source \in DOMAIN nodes /\ edges[e].target \in DOMAIN nodes
    /\ validate_err # Some("Edge references non-existent endpoint")
    /\ (ret.op = "validate" /\ ret.out.res = "Err")
        => ret.out.err # "Edge references non-existent endpoint"

\* C10 witness: validate() has run on a network with a repeated node id, a
\* repeated edge id and an id that is still unknown.
C10_Witness ==
    /\ ret.op = "validate"
    /\ Len(graph.nodes) > node_count
    /\ Len(graph.edges) > edge_count
    /\ DOMAIN nodes # NodeIds

\* C11: in every state reached by add_node and add_edge calls in which no node
\* id and no edge id is added twice, node_count() is the number of vertices of
\* the adjacency structure, edge_count() its number of arcs, node_index_map and
\* nodes have the same keys, edge_index_map and edges have the same keys, and
\* validate() returns Ok.
C11_CountsAgree ==
    /\ node_count = Len(graph.nodes)
    /\ edge_count = Len(graph.edges)
    /\ DOMAIN node_index_map = DOMAIN nodes
    /\ DOMAIN edge_index_map = DOMAIN edges
    /\ validate_err = None
    /\ ret.op = "validate" => ret.out.res = "Ok"

\* C11 witness: validate() has returned on a network of several nodes and arcs
\* whose node ids were not added in increasing order.
C11_Witness ==
    /\ ret.op = "validate"
    /\ Len(graph.nodes) >= 2
    /\ Len(graph.edges) >= 2
    /\ \E id \in DOMAIN node_index_map : node_index_map[id] # id

AddEdgeWithReturned == pc = "done" /\ ret.op = "add_edge"

\* the arc the last successful add_edge inserted
inserted_arc == graph.edges[Len(graph.edges)]

\* C12 as stated: when add_edge(edge, mode) is called with an edge that has no
\* cost for `mode`, the cost stored on the edge and carried by the inserted arc
\* is (length / 1000) / speed * 3600 with speed the edge's own max_speed if it is
\* present and the mode default otherwise; the cost is >= 0.
C12_CostFromOwnSpeed ==
    (/\ AddEdgeWithReturned
     /\ ret.out.res = "Ok"
     /\ ret.mode \notin DOMAIN ret.edge.costs)
    => LET speed == unwrap_or(ret.edge.max_speed, default_speed(ret.mode))
           cost == time_cost(ret.edge.length, speed)
       IN /\ edges[ret.edge.id].costs[ret.mode] = cost
          /\ inserted_arc.weight.cost = cost
          /\ cost >= 0

\* C13: is_accessible(edge, mode) is the per-mode table for every road-class tag
\* and surface tag, absent or not: Walking always true; Car false exactly for
\* footway, cycleway, path, steps; Cycling false exactly for motorway, trunk,
\* steps; Wheelchair true exactly when the surface is absent or paved, asphalt
\* or concrete, and the road class is absent or neither steps nor path.
C13_AccessTable ==
    ret.op = "is_accessible"
    => LET highway == ret.edge.highway_type
           surface == ret.edge.surface
       IN /\ ret.mode = "Walking" => ret.out = TRUE
          /\ ret.mode = "Car"
              => (ret.out = FALSE <=>
                     highway \in {{"footway"}, {"cycleway"}, {"path"}, {"steps"}})
          /\ ret.mode = "Cycling"
              => (ret.out = FALSE <=> highway \in {{"motorway"}, {"trunk"}, {"steps"}})
          /\ ret.mode = "Wheelchair"
              => (ret.out = TRUE <=>
                     /\ surface \in {{}, {"paved"}, {"asphalt"}, {"concrete"}}
                     /\ highway \notin {{"steps"}, {"path"}})

\* C13 witness: a Wheelchair query answered true for an edge with no surface tag
\* and a road class that Car may not use.
C13_Witness ==
    /\ ret.op = "is_accessible"
    /\ ret.mode = "Wheelchair"
    /\ ret.edge.surface = None
    /\ ret.edge.highway_type = Some("footway")
    /\ ret.out = TRUE

\* C14: every IsochroneResult returned by calculate(start, max_cost) has
\* reachable_nodes equal to the number of entries of travel_costs, max_cost
\* equal to the input max_cost and start_node equal to the input start id.
C14_ResultRecord ==
    CalculateOk
    => /\ ret.out.result.reachable_nodes = Cardinality(DOMAIN travel_costs)
       /\ ret.out.result.max_cost = ret.max_cost
       /\ ret.out.result.start_node = ret.start

\* C14 witness: a result of several entries that leaves a node of the network out.
C14_Witness ==
    /\ CalculateOk
    /\ ret.out.result.reachable_nodes >= 2
    /\ ret.out.result.reachable_nodes < node_count

CalculateMultipleReturned == pc = "done" /\ ret.op = "calculate_multiple"

\* C15: for an existing start, calculate_multiple(start, thresholds) returns one
\* result per threshold, in the order of the list, the i-th being a result of
\* calculate(start, thresholds[i]) run alone; if a single calculate fails, the
\* call returns that error and no sequence.
C15_OnePerThreshold ==
    CalculateMultipleReturned
    => /\ ret.start \in DOMAIN nodes
           => /\ ret.out.res = "Ok"
              /\ Len(ret.out.results) = Len(ret.thresholds)
              /\ \A i \in 1..Len(ret.thresholds) :
                    [res |-> "Ok", result |-> ret.out.results[i]]
                        \in calculate(ret.start, ret.thresholds[i])
       /\ (\E i \in 1..Len(ret.thresholds) :
              \E r \in calculate(ret.start, ret.thresholds[i]) : r.res = "Err")
           => /\ ret.out.res = "Err"
              /\ ret.out \in calculate(ret.start, ret.thresholds[1])
              /\ "results" \notin DOMAIN ret.out

\* C15 witness: three results returned in the order of three thresholds, the
\* first smaller than the last.
C15_Witness ==
    /\ CalculateMultipleReturned
    /\ ret.out.res = "Ok"
    /\ Len(ret.out.results) = 3
    /\ ret.out.results[1].reachable_nodes < ret.out.results[3].reachable_nodes

GridReturned == pc = "build" /\ ret.op = "create_grid"

\* two node ids are neighbours in a row or in a column of a grid of the width
GridAdjacent(a, b, width) ==
    LET lo == IF a < b THEN a ELSE b
        hi == IF a < b THEN b ELSE a
    IN \/ hi = lo + 1 /\ (lo \div width) = (hi \div width)
       \/ hi = lo + width

\* C16: for every width >= 1 and height >= 1, create_grid returns a network of
\* width*height nodes with ids 0..width*height-1 and height*(width-1) +
\* width*(height-1) edges of distinct ids, each joining two grid-adjacent nodes,
\* in which every two nodes are joined by a path; for 3x3, 9 nodes and 12 edges.
C16_GridShape ==
    GridReturned
    => LET width == ret.width
           height == ret.height
           n_edges == height * (width - 1) + width * (height - 1)
       IN /\ ret.out.res = "Ok"
          /\ node_count = width * height
          /\ Len(graph.nodes) = width * height
          /\ DOMAIN nodes = 0..(width * height - 1)
          /\ edge_count = n_edges
          /\ Len(graph.edges) = n_edges
          /\ \A e \in DOMAIN edges :
                GridAdjacent(edges[e].source, edges[e].target, width)
          /\ \A arc \in IdArcs : GridAdjacent(arc.a, arc.b, width)
          /\ \A a \in DOMAIN nodes : \A b \in DOMAIN nodes : Joined(a, b)
          /\ (width = 3 /\ height = 3) => (node_count = 9 /\ edge_count = 12)

\* C16 witness: create_grid has returned the 3x3 grid.
C16_Witness ==
    /\ GridReturned
    /\ ret.width = 3 /\ ret.height = 3
    /\ node_count = 9 /\ edge_count = 12

\* the arcs of the width x height grid whose edges all cost `cost`
GridArcs(width, height, cost) ==
    {[a |-> y * width + x, b |-> y * width + x + 1, cost |-> cost] :
        x \in 0..(width - 2), y \in 0..(height - 1)}
    \cup {[a |-> y * width + x, b |-> (y + 1) * width + x, cost |-> cost] :
             x \in 0..(width - 1), y \in 0..(height - 2)}

\* the network is the 3x3 grid with edges of the cost
IsGrid3x3(cost) ==
    /\ DOMAIN nodes = 0..8
    /\ Len(graph.nodes) = 9
    /\ Len(graph.edges) = 12
    /\ IdArcs = GridArcs(3, 3, cost)

\* on the 3x3 grid, calculate from a corner with a threshold of at least four
\* edge costs reports 9 reachable nodes
WholeGridReached ==
    \A cost \in {72, 144} :
        (/\ IsGrid3x3(cost)
         /\ ret.start \in {0, 2, 6, 8}
         /\ ret.max_cost >= 4 * cost)
        => ret.out.result.reachable_nodes = 9

\* C17 as stated: a node whose least cost from the start equals max_cost is in
\* the result of calculate; on the 3x3 grid, calculate(corner, T) reports 9
\* reachable nodes for T the cost of four edges and for every larger T.
C17_InclusiveOnEveryGraph ==
    CalculateOk
    => /\ LET walks == Walks(ret.start)
          IN \A n \in DOMAIN nodes :
                LeastIn(walks, n) = ret.max_cost => n \in DOMAIN travel_costs
       /\ WholeGridReached

\* C17 amended: the same, the first part on a graph to which no node id was
\* added twice.
C17_Inclusive ==
    CalculateOk
    => /\ NoRepeatedNodeIds
           => LET walks == Walks(ret.start)
              IN \A n \in DOMAIN nodes :
                    LeastIn(walks, n) = ret.max_cost
                    => (n \in DOMAIN travel_costs /\ travel_costs[n] = ret.max_cost)
       /\ WholeGridReached

\* C17 witness: on the 3x3 grid with 72 s edges, calculate(0, 288) has recorded
\* the opposite corner at 288 s and reports 9 nodes.
C17_Witness ==
    /\ CalculateOk
    /\ IsGrid3x3(72)
    /\ ret.start = 0
    /\ ret.max_cost = 288
    /\ 8 \in DOMAIN travel_costs
    /\ travel_costs[8] = 288
    /\ ret.out.result.reachable_nodes = 9

LoaderReturned == pc = "build" /\ ret.op = "load_from_parquet"

\* C18 as stated: for every table (rows with null fields, an unparsable geometry
\* or a geometry of fewer than two coordinates included), when the loader is
\* about to call add_edge for a row, both endpoint ids of the row have been
\* added by add_node, and the loader never returns an error of add_edge.
C18_NodesBeforeEdges ==
    /\ (/\ pc = "load_edges"
         /\ ret.i <= Len(ret.table)
         /\ second_pass_adds(ret.table[ret.i]))
        => /\ unwrap(ret.table[ret.i].source) \in DOMAIN node_index_map
           /\ unwrap(ret.table[ret.i].target) \in DOMAIN node_index_map
    /\ LoaderReturned => ret.out.res = "Ok"

\* what the query returns when it runs alone
AloneResults(query) ==
    IF query.op = "shortest_path"
    THEN shortest_path(query.from, query.to)
    ELSE calculate(query.start, query.max_cost)

\* thread t returns in this step
Returns(t) ==
    /\ pc = "running"
    /\ ret.calls[t].at # "returned"
    /\ ret'.calls[t].at = "returned"

\* C19: under every interleaving of the steps of shortest_path and calculate
\* calls running on the same graph with no writer, each call returns a result
\* it returns when run alone, and no step of a query changes the graph.
C19_QueriesIndependent ==
    [][(pc = "running" \/ pc' = "running")
       => /\ UNCHANGED network
          /\ \A t \in Threads :
                Returns(t) => \E r \in AloneResults(ret.calls[t].query) :
                                ret'.calls[t].out = Some(r)]_vars

\* C19 witness: a shortest_path call has returned a path of several nodes while
\* a calculate call of the other thread is in the middle of its loop.
C19_Witness ==
    /\ pc = "running"
    /\ \E t \in Threads, u \in Threads :
          /\ ret.calls[t].query.op = "shortest_path"
          /\ ret.calls[t].at = "returned"
          /\ unwrap(ret.calls[t].out).res = "Some"
          /\ Len(unwrap(ret.calls[t].out).path) >= 2
          /\ ret.calls[u].query.op = "calculate"
          /\ ret.calls[u].at = "loop"
          /\ Len(ret.calls[u].s.expanded) >= 1
          /\ ret.calls[u].s.heap # EmptyBag

\* the adjacency structure and the lookup maps disagree on a count
CountMismatch ==
    \/ Len(graph.nodes) # node_count
    \/ Len(graph.edges) # edge_count

\* the two errors of validate() that report a count mismatch
CountMismatchErrors ==
    {"Graph node count doesn't match node map",
     "Graph edge count doesn't match edge map"}

\* this step is add_node with an id the network already holds
AddsNodeAgain ==
    /\ ret'.op = "add_node"
    /\ ret'.id \in DOMAIN nodes

\* this step is add_edge with an edge id the network already holds and both
\* endpoint ids in the node lookup
AddsEdgeAgain ==
    /\ ret'.op = "add_edge"
    /\ ret'.id \in DOMAIN edges
    /\ ret'.source \in DOMAIN node_index_map
    /\ ret'.target \in DOMAIN node_index_map

\* C20: add_node with an id already present returns Ok, leaves node_count()
\* as it was and appends one vertex; add_edge with an edge id already present
\* and known endpoints returns Ok, leaves edge_count() as it was and appends
\* one arc; once the counts disagree they disagree for ever, and every
\* validate() that runs then returns Err with a count-mismatch message.
C20_DuplicateIdsBreakCounts ==
    /\ [][AddsNodeAgain => /\ ret'.out.res = "Ok"
                           /\ node_count' = node_count
                           /\ Len(graph'.nodes) = Len(graph.nodes) + 1
                           /\ CountMismatch']_vars
    /\ [][AddsEdgeAgain => /\ ret'.out.res = "Ok"
                           /\ edge_count' = edge_count
                           /\ Len(graph'.edges) = Len(graph.edges) + 1
                           /\ CountMismatch']_vars
    /\ [][CountMismatch => CountMismatch']_vars
    /\ []((ret.op = "validate" /\ CountMismatch)
            => (ret.out.res = "Err" /\ ret.out.err \in CountMismatchErrors))

\* C20 witness: validate() has returned the edge-count error on a network whose
\* vertices agree with its node map, an edge id having been added twice.
C20_Witness ==
    /\ ret.op = "validate"
    /\ Len(graph.nodes) = node_count
    /\ Len(graph.edges) > edge_count
    /\ ret.out = [res |-> "Err", err |-> "Graph edge count doesn't match edge map"]

\* C21: whatever the oneway flag, highway type and surface of the edges, for
\* all existing nodes a, b every result of shortest_path(a, b) and every result
\* of shortest_path(b, a) are both None or both Some with the same total cost.
C21_BothDirections ==
    (/\ ShortestPathReturned
     /\ ret.from \in DOMAIN nodes /\ ret.to \in DOMAIN nodes)
    => \A back \in shortest_path(ret.to, ret.from) :
          /\ back.res = ret.out.res
          /\ ret.out.res \in {"None", "Some"}
          /\ ret.out.res = "Some" => back.cost = ret.out.cost

\* C21 witness: shortest_path has returned a path of three nodes that walks a
\* oneway edge closed to cars against its direction.
C21_Witness ==
    /\ ShortestPathReturned
    /\ ret.out.res = "Some"
    /\ Len(ret.out.path) = 3
    /\ ret.out.cost > 0
    /\ \E e \in DOMAIN edges :
          /\ edges[e].oneway
          /\ ~is_accessible(edges[e], "Car")
          /\ \E i \in 1..2 : /\ ret.out.path[i] = edges[e].target
                              /\ ret.out.path[i + 1] = edges[e].source
                              /\ edges[e].source # edges[e].target
                              /\ Cardinality(ArcCosts(edges[e].source, edges[e].target)) = 1
                              /\ \A o \in DOMAIN edges : o # e =>
                                    {edges[o].source, edges[o].target}
                                        # {edges[e].source, edges[e].target}

\* a calculate call is in its loop or has returned from it: ret holds its locals
CalculateLocals == ret.op = "calculate" /\ "s" \in DOMAIN ret

\* a shortest_path call is in its loop or has returned from it
SearchLocals == ret.op = "shortest_path" /\ "s" \in DOMAIN ret

\* C22: at every step of calculate(start, max_cost), every frontier entry other
\* than the initial start entry has cost <= max_cost, and every entry of the
\* distance map for a node other than the start has cost <= max_cost.  (Every
\* write to the map pushes the same node and cost onto the frontier, where it
\* stays at least to the end of the iteration.)
C22_FrontierWithinLimit ==
    CalculateLocals
    => /\ \A e \in BagToSet(ret.s.heap) :
             e = [node |-> ret.start, cost |-> 0] \/ e.cost <= ret.max_cost
       /\ \A n \in (DOMAIN ret.s.distances) \ {ret.start} :
             ret.s.distances[n] <= ret.max_cost

\* C22 witness: in the middle of the loop, an entry at the limit is on the
\* frontier, and an arc out of an expanded node leads beyond the limit.
C22_Witness ==
    /\ CalculateLocals
    /\ pc = "running"
    /\ ret.max_cost > 0
    /\ \E e \in BagToSet(ret.s.heap) : e.cost = ret.max_cost /\ e.node # ret.start
    /\ \E i \in 1..Len(ret.s.expanded) :
          LET n == ret.s.expanded[i]
          IN \E arc \in IdArcs :
                /\ arc.a = n \/ arc.b = n
                /\ ret.s.distances[n] + arc.cost > ret.max_cost

\* the iteration taken in this step popped the target of the search
PopsTarget ==
    /\ ret.s.heap # EmptyBag
    /\ ret'.popped # None
    /\ unwrap(ret'.popped).node = node_index_map[ret.to]
    /\ ret'.s.heap (+) SetToBag(ret'.popped) = ret.s.heap

\* C23: on every graph of the model (arc costs >= 0, with cycles, zero-cost
\* arcs, self-loops, parallel arcs, targets not joined to the source), every
\* call in its loop eventually returns; calculate returns exactly in the
\* iteration that finds the frontier empty; shortest_path returns exactly in the
\* iteration that pops the target or finds the frontier empty.
C23_Terminates ==
    /\ (pc = "running") ~> (pc = "done")
    /\ [][(pc = "running" /\ ret.op = "calculate")
           => (pc' = "done" <=> ret.s.heap = EmptyBag)]_vars
    /\ [][(pc = "running" /\ ret.op = "shortest_path")
           => (pc' = "done" <=> (ret.s.heap = EmptyBag \/ PopsTarget))]_vars

\* C23 witness: shortest_path has returned None for a target not joined to the
\* source, after expanding two nodes joined by a zero-cost arc.
C23_Witness ==
    /\ pc = "done"
    /\ SearchLocals
    /\ ret.s.result = Some(no_path)
    /\ ret.s.heap = EmptyBag
    /\ Len(ret.s.expanded) >= 2
    /\ \E arc \in IdArcs : arc.cost = 0 /\ arc.a # arc.b

\* C24: after a successful add_edge(edge, mode), a cost the edge passed in
\* carried for `mode` is the cost stored and the cost of the inserted arc, and
\* for every other mode the stored edge has a cost exactly when the edge passed
\* in had one, and the same one.
C24_OtherModesUntouched ==
    (AddEdgeWithReturned /\ ret.out.res = "Ok")
    => LET stored == edges[ret.edge.id]
       IN /\ ret.mode \in DOMAIN ret.edge.costs
               => /\ stored.costs[ret.mode] = ret.edge.costs[ret.mode]
                  /\ inserted_arc.weight.cost = ret.edge.costs[ret.mode]
          /\ ret.mode \in DOMAIN stored.costs
          /\ inserted_arc.weight.edge_id = ret.edge.id
          /\ \A m \in Modes \ {ret.mode} :
                /\ m \in DOMAIN stored.costs <=> m \in DOMAIN ret.edge.costs
                /\ m \in DOMAIN stored.costs => stored.costs[m] = ret.edge.costs[m]

\* C24 witness: an edge of 1000 m that carried costs of 7 s for Car and for
\* Walking was added for Car: the arc costs 7 s, not the 72 s of its length.
C24_Witness ==
    /\ AddEdgeWithReturned
    /\ ret.out.res = "Ok"
    /\ ret.mode = "Car"
    /\ ret.edge.length = 1000
    /\ DOMAIN ret.edge.costs = {"Car", "Walking"}
    /\ inserted_arc.weight.cost = 7
    /\ edges[ret.edge.id].costs = ret.edge.costs

\* the distance find_nearest_node computes for node n and the point of the call
distance_of(n) == calculate_distance(ret.point, nodes[n].location)

\* C25 as stated: find_nearest_node(point) returns None exactly when the network
\* has no nodes; otherwise it returns the id of a node whose distance to the
\* point is <= the distance of every other node.
C25_NearestOfAllNodes ==
    ret.op = "find_nearest_node"
    => /\ ret.out = None <=> DOMAIN nodes = {}
       /\ ret.out # None
            => /\ unwrap(ret.out) \in DOMAIN nodes
               /\ \A n \in (DOMAIN nodes) \ ret.out :
                     le(distance_of(unwrap(ret.out)), distance_of(n))

\* C25 amended: the same, when the distance of every node to the point is a
\* number (no NaN among them).
C25_NearestOfNumbered ==
    (ret.op = "find_nearest_node" /\ \A n \in DOMAIN nodes : distance_of(n) # NaN)
    => /\ ret.out = None <=> DOMAIN nodes = {}
       /\ ret.out # None
            => /\ unwrap(ret.out) \in DOMAIN nodes
               /\ \A n \in (DOMAIN nodes) \ ret.out :
                     le(distance_of(unwrap(ret.out)), distance_of(n))

\* C25 witness: with three nodes, two of them equally near and one farther,
\* the call has returned the one of the two near nodes with the larger id.
C25_Witness ==
    /\ ret.op = "find_nearest_node"
    /\ Cardinality(DOMAIN nodes) = 3
    /\ \A n \in DOMAIN nodes : distance_of(n) # NaN
    /\ ret.out # None
    /\ \E n \in DOMAIN nodes, far \in DOMAIN nodes :
          /\ n < unwrap(ret.out)
          /\ distance_of(n) = distance_of(unwrap(ret.out))
          /\ lt(distance_of(n), distance_of(far))

\* C26: for every existing node x, shortest_path(x, x) returns Some((0, [x])),
\* whether or not x has incident arcs.
C26_SourceIsTarget ==
    (/\ ShortestPathReturned
     /\ ret.from = ret.to
     /\ ret.from \in DOMAIN nodes)
    => ret.out = [res |-> "Some", cost |-> 0, path |-> <<ret.from>>]

\* C26 witness: shortest_path(x, x) has returned for a node x that has a
\* zero-cost self-loop and an arc to another node.
C26_Witness ==
    /\ ShortestPathReturned
    /\ ret.from = ret.to
    /\ ret.out.res = "Some"
    /\ 0 \in ArcCosts(ret.from, ret.from)
    /\ \E n \in (DOMAIN nodes) \ {ret.from} : ArcCosts(ret.from, n) # {}

\* a call is in its loop or has returned from it: ret holds its locals
HasLocals == "s" \in DOMAIN ret

\* the recorded best cost of the node of a heap entry: distances are keyed by
\* vertex in dijkstra_search and by node id in dijkstra_isochrone, as the
\* entries are
Recorded(distances, node) == DistOrInf(distances, node)

\* this step is an iteration that popped an entry
Pops == pc = "running" /\ ret.s.heap # EmptyBag

\* C27: in dijkstra_search and in dijkstra_isochrone no node is expanded twice;
\* an iteration that pops an entry of cost above the recorded cost of its node
\* only removes the entry; and the recorded cost of an expanded node never
\* changes.
C27_ExpandedOnce ==
    /\ [](HasLocals =>
            \A i \in 1..Len(ret.s.expanded), j \in 1..Len(ret.s.expanded) :
               ret.s.expanded[i] = ret.s.expanded[j] => i = j)
    /\ [][Pops =>
            LET e == unwrap(ret'.popped)
            IN e.cost > Recorded(ret.s.distances, e.node)
                 => /\ ret'.s.distances = ret.s.distances
                    /\ ret'.s.expanded = ret.s.expanded
                    /\ ret'.s.heap = HeapRemove(ret.s.heap, e)]_vars
    /\ [][Pops =>
            \A i \in 1..Len(ret.s.expanded) :
               LET n == ret.s.expanded[i]
               IN /\ n \in DOMAIN ret'.s.distances
                  /\ ret'.s.distances[n] = ret.s.distances[n]]_vars

\* C27 witness: after two expansions, the last iteration popped an entry made
\* stale by a cheaper parallel arc and skipped it.
C27_Witness ==
    /\ HasLocals
    /\ pc = "running"
    /\ Len(ret.s.expanded) >= 2
    /\ ret.popped # None
    /\ unwrap(ret.popped).cost > Recorded(ret.s.distances, unwrap(ret.popped).node)

\* C28: whichever entry of least cost each pop yields, a shortest_path call
\* returns the same kind of result and, for Some, the same total cost, and a
\* calculate call returns the same value, travel_costs included.
C28_TieBreakIndependent ==
    /\ ShortestPathReturned
         => \A other \in shortest_path(ret.from, ret.to) :
               /\ other.res = ret.out.res
               /\ ret.out.res = "Some" => other.cost = ret.out.cost
    /\ CalculateReturned
         => \A other \in calculate(ret.start, ret.max_cost) : other = ret.out

\* C28 witness: shortest_path has returned one of several paths of the same
\* cost: another order of popping returns a different path.
C28_Witness ==
    /\ ShortestPathReturned
    /\ ret.out.res = "Some"
    /\ \E other \in shortest_path(ret.from, ret.to) :
          /\ other.path # ret.out.path
          /\ other.cost = ret.out.cost
          /\ Len(other.path) >= 3

\* C29: on a graph to which no node id was added twice, after calculate(s,
\* max_cost) with max_cost >= 0 has returned Ok, for every existing node t and
\* every result of shortest_path(s, t): t is a key of travel_costs exactly when
\* the result is Some((c, _)) with c <= max_cost, and then travel_costs[t] = c.
C29_EnginesAgree ==
    (CalculateOk /\ ret.max_cost >= 0 /\ NoRepeatedNodeIds)
    => \A t \in DOMAIN nodes :
          \A r \in shortest_path(ret.start, t) :
             /\ t \in DOMAIN travel_costs
                  <=> (r.res = "Some" /\ r.cost <= ret.max_cost)
             /\ t \in DOMAIN travel_costs => travel_costs[t] = r.cost

\* C29 witness: calculate has returned a node other than the start at a cost
\* above zero and left out a node that shortest_path reaches, beyond max_cost.
C29_Witness ==
    /\ CalculateOk /\ ret.max_cost >= 0 /\ NoRepeatedNodeIds
    /\ \E t \in (DOMAIN travel_costs) \ {ret.start} : travel_costs[t] > 0
    /\ \E u \in (DOMAIN nodes) \ DOMAIN travel_costs :
          \E r \in shortest_path(ret.start, u) :
             r.res = "Some" /\ r.cost > ret.max_cost

BatchReturned == pc = "done" /\ ret.op = "calculate_batch_isochrones"

\* the <<start, threshold>> pairs of a batch call in start-major order, then
\* threshold order
BatchPairs(start_nodes, time_thresholds) ==
    LET T == Len(time_thresholds)
    IN [k \in 1..(Len(start_nodes) * T) |->
           <<start_nodes[((k - 1) \div T) + 1], time_thresholds[((k - 1) % T) + 1]>>]

\* C30: calculate_batch_isochrones always returns Ok, and its list holds, in
\* start-major then threshold order, one entry for each <<start, threshold>>
\* pair whose start node is in the network (the result of calculate for the
\* pair, labelled with the pair) and nothing for the other pairs.
C30_BatchSkipsUnknownStarts ==
    BatchReturned
    => LET Known(pair) == pair[1] \in DOMAIN node_index_map
           kept == SelectSeq(BatchPairs(ret.start_nodes, ret.time_thresholds), Known)
           results == ret.out.results
       IN /\ ret.out.res = "Ok"
          /\ Len(results) = Len(kept)
          /\ \A k \in 1..Len(kept) :
                /\ results[k].start_node = kept[k][1]
                /\ results[k].max_cost = kept[k][2]
                /\ \E r \in calculate(kept[k][1], kept[k][2]) :
                      /\ r.res = "Ok"
                      /\ results[k].travel_costs = r.result.travel_costs
                      /\ results[k].reachable_nodes = r.result.reachable_nodes

\* C30 witness: a batch of three starts, the middle one unknown, and two
\* thresholds has returned four entries, one of them with two nodes.
C30_Witness ==
    /\ BatchReturned
    /\ Len(ret.start_nodes) = 3
    /\ Len(ret.time_thresholds) = 2
    /\ ret.start_nodes[2] \notin DOMAIN node_index_map
    /\ ret.start_nodes[1] \in DOMAIN node_index_map
    /\ Len(ret.out.results) = 4
    /\ \E k \in 1..4 : ret.out.results[k].reachable_nodes = 2

====
